---- MODULE Spec2Model ----
(***************************************************************************)
(* Model of the core prompting validator:                                  *)
(*   neurons/text/prompting/validators/core/{neuron,forward,train,         *)
(*   weights,synapse}.py                                                   *)
(*                                                                         *)
(* Two threads run forward(): the training loop (train.py) and an axon     *)
(* worker serving synapse_forward (synapse.py).  They share the metagraph  *)
(* and the history queue.  The chain's block height advances on its own.   *)
(*                                                                         *)
(* Specifications:                                                         *)
(*   Spec         the training loop and the chain                          *)
(*   FairSpec     Spec with the fairness of the loop and of the chain      *)
(*   SpecServe    the loop's rounds and an inference request, interleaved  *)
(*   SpecForward  forward() called once on drawn inputs                    *)
(*   SpecEffects  forward() called once with drawn training flags          *)
(*   SpecFaults   forward() called once while a model or the event log     *)
(*                fails                                                    *)
(*   SpecWeights  compute_weights() run on a drawn history                 *)
(*   SpecRace     compute_weights() run while an inference request is      *)
(*                served                                                   *)
(*   SpecCall     one forward call object, invoked and read                *)
(*   SpecPack     the messages of a call packed and unpacked               *)
(*   SpecAssociate  associate_extrinsic() called once on drawn inputs      *)
(*                                                                         *)
(* Numbers.  Rewards and gating scores are real numbers in the program.    *)
(* A reward r is represented by the positive integer E = exp(r), so that   *)
(* softmax(r)[i] = E[i] / (E[1] + ... + E[m]) is an exact rational, and    *)
(* argmax / sort order are those of r.  Moving averages and weights are    *)
(* exact rationals <<numerator, denominator>> in lowest terms (floating    *)
(* point rounding is outside the model).                                   *)
(***************************************************************************)
EXTENDS Integers, Sequences, FiniteSets, TLC

(***************************************************************************)
(* Bounds of the model.                                                    *)
(***************************************************************************)
\* metagraph.n : number of uids in the peer directory
MetagraphN == 2
\* config.neuron.max_history (neuron.py:84, default 1000)
MaxHistory == 2
\* rewards and gating scores of the running validator: exp(r) \in 1..MaxRewardExp
MaxRewardExp == 1
\* rewards and gating scores of the rounds and histories drawn as inputs
MaxDrawnRewardExp == 2
\* validator_epoch_length / config.neuron.epoch_length_override
EpochLength == 2
\* hotkeys of a uid are numbered 0..MaxHotkey (a rotation changes the number)
MaxHotkey == 1
\* number of inference requests the axon serves
MaxRequests == 1
\* requests a call object may send before the model stops invoking it
MaxSent == 1
\* longest message text, in characters
MaxStrLen == 2
\* longest list of roles and of messages handed to a call
MaxMessages == 1
\* largest quoted fee and existential deposit, in rao
MaxRao == 1

(***************************************************************************)
(* Program constants.                                                      *)
(***************************************************************************)
\* train.py:67  `last_epoch_block % 10 == 0`
SyncModulus == 10
\* weights.py:43  alpha = 0.01 = AlphaNum / AlphaDen
AlphaNum == 1
AlphaDen == 100

Uids == 0 .. (MetagraphN - 1)
Hotkeys == 0 .. MaxHotkey
RewardExps == 1 .. MaxRewardExp
DrawnRewardExps == 1 .. MaxDrawnRewardExp
\* the training loop, an axon worker serving synapse_forward, a direct caller of forward()
Threads == {"train", "synapse", "caller"}
\* the values of config.neuron.training_topk and inference_topk passed as num_to_query
NumToQueryArgs == (-1) .. (MetagraphN + 1)
\* forward.py:51,106  num_to_query = None, written as an integer no count can be
NumToQueryNone == -2
\* the num_to_query arguments of a direct call of forward()
ForwardArgs == {NumToQueryNone} \cup NumToQueryArgs

\* association.py:104 : the fee assumed when the fee query fails, in rao (0.02 tao)
FallbackFee == 20000000

(***************************************************************************)
(* Sequences and exact rationals.                                          *)
(***************************************************************************)
Range(s) == {s[i] : i \in DOMAIN s}

Min(a, b) == IF a <= b THEN a ELSE b

Abs(a) == IF a < 0 THEN -a ELSE a

RECURSIVE Gcd(_, _)
Gcd(a, b) == IF b = 0 THEN a ELSE Gcd(b, a % b)

\* the rational p/q (q > 0) in lowest terms
Rat(p, q) == LET g == Gcd(Abs(p), q) IN <<p \div g, q \div g>>

RZero == <<0, 1>>

\* addition over the least common denominator (keeps the integers small)
RAdd(x, y) ==
    LET g == Gcd(x[2], y[2])
    IN  Rat(x[1] * (y[2] \div g) + y[1] * (x[2] \div g), (x[2] \div g) * y[2])

RMul(x, y) ==
    LET a == Rat(x[1], y[2])
        b == Rat(y[1], x[2])
    IN  <<a[1] * b[1], a[2] * b[2]>>

\* x / y for y > 0
RDiv(x, y) == RMul(x, <<y[2], y[1]>>)

RECURSIVE SeqSum(_)
SeqSum(s) == IF s = <<>> THEN 0 ELSE Head(s) + SeqSum(Tail(s))

RECURSIVE RSum(_, _)
\* sum of the rationals f[u], u \in S
RSum(f, S) ==
    IF S = {} THEN RZero
    ELSE LET u == CHOOSE x \in S : TRUE IN RAdd(f[u], RSum(f, S \ {u}))

\* all sequences without repetition over the set S
Perms(S) == {p \in [1 .. Cardinality(S) -> S] : \A i, j \in DOMAIN p : p[i] = p[j] => i = j}

\* the ascending sequence of the elements of a set of integers
Ascending(S) == CHOOSE p \in Perms(S) : \A i, j \in DOMAIN p : i < j => p[i] < p[j]

\* Python's s[-k:] (k >= 0): the last k elements; s[-0:] is s[0:], the whole list
SliceLast(s, k) ==
    IF k = 0 \/ k >= Len(s) THEN s ELSE SubSeq(s, Len(s) - k + 1, Len(s))

VARIABLES
    metagraph,          \* neuron.metagraph: hotkeys and serving flags per uid (local copy of the chain's)
    history,            \* neuron.history.queue: the events put so far, oldest first
    pc,                 \* per thread: where it is
    fpass,              \* per thread: the forward pass state of its current / last round
    last_epoch_block,   \* train(): last_epoch_block, modulo SyncModulus
    elapsed,            \* neuron.subtensor.block - last_epoch_block, saturated at EpochLength
    config,             \* neuron.config.neuron: dont_train, no_reward_model
    cw,                 \* compute_weights(): the state of its loop over the history
    epoch,              \* the form of the value compute_weights returned to the epoch boundary
    requests,           \* number of inference requests received so far
    reply,              \* what the last inference request got back
    submitted,          \* the last call of subtensor.set_weights: blocks since, and its result
    call,               \* a TextPromptingDendriteForwardCall object (calls.py)
    wire,               \* roles and messages packed by a call and unpacked by process_messages
    assoc               \* a run of associate_extrinsic (association.py)

vars == <<metagraph, history, pc, fpass, last_epoch_block, elapsed, config, cw, epoch, requests, reply,
          submitted, call, wire, assoc>>

(***************************************************************************)
(* forward.py : forward()                                                  *)
(***************************************************************************)
\* lists indexed by uid (metagraph.hotkeys, scores) are sequences: uid u is at u + 1
At(s, u) == s[u + 1]

\* forward.py:105  the uids whose axon is serving, in ascending order
AvailableUids(mg) == Ascending({u \in Uids : At(mg.serving, u)})

\* -1 / None taken as a single uid
ClampNumToQueryOne(arg, avail) ==
    LET k == IF arg = NumToQueryNone \/ arg = -1 THEN 1 ELSE arg
    IN  IF k > Len(avail) THEN Len(avail) ELSE k

\* forward.py:106-107  -1 / None means metagraph.n; clamp to the available uids
ClampNumToQuery(arg, avail) ==
    LET k == IF arg = NumToQueryNone \/ arg = -1 THEN MetagraphN ELSE arg
    IN  IF k > Len(avail) THEN Len(avail) ELSE k

\* forward.py:117  random.sample( available_uids, num_to_query ): k distinct members, any order
RandomSample(avail, k) ==
    {p \in [1 .. k -> Range(avail)] : \A i, j \in 1 .. k : p[i] = p[j] => i = j}

\* tensor.sort()[1]: the positions of avail in ascending order of score;
\* torch.sort is not stable, so equal scores may come out in either order
SortIndices(avail, scores) ==
    {p \in Perms(DOMAIN avail) :
        \A i, j \in DOMAIN p : i < j => At(scores, avail[p[i]]) <= At(scores, avail[p[j]])}

\* the sorted positions taken as uids, without indexing available_uids by them
RankedPositions(avail, scores, k) ==
    {[i \in DOMAIN SliceLast(p, k) |-> SliceLast(p, k)[i] - 1] : p \in SortIndices(avail, scores)}

\* forward.py:121  available_uids[ scores[ available_uids ].sort()[ 1 ][ -num_to_query: ] ]
RankedSelect(avail, scores, k) ==
    {[i \in DOMAIN SliceLast(p, k) |-> avail[SliceLast(p, k)[i]]] : p \in SortIndices(avail, scores)}

\* forward.py:115-121
SelectUids(random_sample_uids, avail, scores, k) ==
    IF random_sample_uids THEN RandomSample(avail, k) ELSE RankedSelect(avail, scores, k)

\* what a call of the dendrite pool comes back as (forward.py:135):
\* call is None, call.completion is None, an empty completion, a non-empty completion
CallOutcomes == {"no_call", "no_completion", "empty", "text"}

\* the non-empty completion text of uid u
TextOf(u) == "completion of uid " \o ToString(u)

RECURSIVE SuccessfulIndices(_, _)
\* forward.py:134-137  positions of uids_to_query whose call passed the filter, in order
SuccessfulIndices(outcome, i) ==
    IF i > Len(outcome) THEN <<>>
    ELSE IF outcome[i] = "text" THEN <<i>> \o SuccessfulIndices(outcome, i + 1)
    ELSE SuccessfulIndices(outcome, i + 1)

\* the index of the last maximal value
ArgMaxLast(rewards) ==
    CHOOSE i \in DOMAIN rewards :
        /\ \A j \in DOMAIN rewards : rewards[j] <= rewards[i]
        /\ \A j \in DOMAIN rewards : j > i => rewards[j] < rewards[i]

\* torch.argmax: the index of the first maximal value
ArgMax(rewards) ==
    CHOOSE i \in DOMAIN rewards :
        /\ \A j \in DOMAIN rewards : rewards[j] <= rewards[i]
        /\ \A j \in DOMAIN rewards : j < i => rewards[j] < rewards[i]

\* forward.py:84-97  the forward pass state before any attribute of the round is set
NewFpass(mg, arg, random_sample_uids, train_gating_model, apply_backward, record_event) ==
    [ success |-> FALSE,
      record_event |-> record_event,
      train_gating_model |-> train_gating_model,
      apply_backward |-> apply_backward,
      hotkeys |-> mg.hotkeys,
      num_to_query_arg |-> arg,
      num_to_query |-> arg,
      random_sample_uids |-> random_sample_uids,
      available_uids |-> <<>>,
      scores |-> <<>>,
      uids_to_query |-> <<>>,
      successful_uids |-> <<>>,
      successful_completions |-> <<>>,
      rewards |-> <<>>,
      completion |-> <<>>,
      assigned |-> {},
      effects |-> {},
      event_log |-> "none",
      raised |-> "none" ]

\* no round yet
NoFpass == NewFpass([hotkeys |-> <<>>, serving |-> <<>>], -1, TRUE, TRUE, TRUE, TRUE)

\* the attributes of a recorded fpass object that are read after it was put
EventOf(f) ==
    [ success |-> f.success,
      hotkeys |-> f.hotkeys,
      successful_uids |-> f.successful_uids,
      successful_completions |-> f.successful_completions,
      rewards |-> f.rewards,
      completion |-> f.completion ]

\* a queue built without maxsize never fills
QueueNeverFull(q) == FALSE

\* queue.Queue.put( item ) with block = True: waits while the queue is full
QueueFull(q) == MaxHistory > 0 /\ Len(q) >= MaxHistory

\* one object shared by every entry of the queue: a put shows in the entries put before
QueuePutShared(q, item) == [i \in 1 .. Len(q) + 1 |-> item]

\* forward.py:85,179  each round puts its own, newly created object
QueuePut(q, item) == Append(q, item)

(***************************************************************************)
(* weights.py : compute_weights()                                          *)
(***************************************************************************)
Alpha == Rat(AlphaNum, AlphaDen)

OneMinusAlpha == Rat(AlphaDen - AlphaNum, AlphaDen)

\* weights.py:45  torch.zeros( metagraph.n )
ZeroScores == [u \in 1 .. MetagraphN |-> RZero]

\* weights.py:48  softmax over the event's rewards (a reward r is held as exp(r))
Softmax(rewards) == [i \in DOMAIN rewards |-> Rat(rewards[i], SeqSum(rewards))]

\* scatter onto zeros instead of onto the running scores
ScatterOntoZeros(scores, uids, values) ==
    [u \in DOMAIN scores |->
        IF \E i \in DOMAIN uids : uids[i] + 1 = u
        THEN values[CHOOSE i \in DOMAIN uids : uids[i] + 1 = u]
        ELSE RZero]

\* weights.py:50  scores.scatter( 0, uids, values ): a copy of scores with values[i] at uids[i]
Scatter(scores, uids, values) ==
    [u \in DOMAIN scores |->
        IF \E i \in DOMAIN uids : uids[i] + 1 = u
        THEN values[CHOOSE i \in DOMAIN uids : uids[i] + 1 = u]
        ELSE scores[u]]

\* the scattered rewards added to the scores, without the weights alpha and 1 - alpha
MovingAverageUnweighted(scores, scattered) ==
    [u \in DOMAIN scores |-> RAdd(scores[u], scattered[u])]

\* alpha and 1 - alpha exchanged
MovingAverageSwapped(scores, scattered) ==
    [u \in DOMAIN scores |-> RAdd(RMul(OneMinusAlpha, scores[u]), RMul(Alpha, scattered[u]))]

\* weights.py:52  alpha * moving_averaged_scores + ( 1 - alpha ) * scattered_rewards
MovingAverage(scores, scattered) ==
    [u \in DOMAIN scores |-> RAdd(RMul(Alpha, scores[u]), RMul(OneMinusAlpha, scattered[u]))]

\* weights.py:58-61  zero the score of every uid whose hotkey differs from the last event's;
\* last_hotkeys = <<>> stands for None (no event processed yet)
ResetRotated(scores, last_hotkeys, hotkeys) ==
    IF last_hotkeys = <<>> THEN scores
    ELSE [u \in DOMAIN scores |-> IF last_hotkeys[u] # hotkeys[u] THEN RZero ELSE scores[u]]

\* weights.py:47-63  one iteration of the loop over history.queue
ProcessEvent(st, event) ==
    LET normalized_rewards == Softmax(event.rewards)
        scattered_rewards == Scatter(st.scores, event.successful_uids, normalized_rewards)
        averaged == MovingAverage(st.scores, scattered_rewards)
    IN  [ scores |-> ResetRotated(averaged, st.last_hotkeys, event.hotkeys),
          last_hotkeys |-> event.hotkeys ]

RECURSIVE ScoresAfter(_, _)
\* weights.py:44-63  the loop state after the first i events of the queue
ScoresAfter(q, i) ==
    IF i = 0 THEN [scores |-> ZeroScores, last_hotkeys |-> <<>>]
    ELSE ProcessEvent(ScoresAfter(q, i - 1), q[i])

\* division by the largest entry instead of by the sum of the entries
NormalizeByMax(scores) ==
    LET top == CHOOSE x \in Range(scores) : \A y \in Range(scores) : y[1] * x[2] <= x[1] * y[2]
    IN  IF top = RZero THEN scores
        ELSE [u \in DOMAIN scores |-> RDiv(scores[u], top)]

\* a zero vector replaced by the uniform distribution
L1NormalizeUniformIfZero(scores) ==
    LET norm == RSum([u \in DOMAIN scores |-> <<Abs(scores[u][1]), scores[u][2]>>], DOMAIN scores)
    IN  IF norm = RZero THEN [u \in DOMAIN scores |-> Rat(1, Len(scores))]
        ELSE [u \in DOMAIN scores |-> RDiv(scores[u], norm)]

\* weights.py:67  torch.nn.functional.normalize( x, p = 1, dim = 0 ) = x / max( |x|_1, eps ):
\* a zero vector stays zero; every non-zero sum of the model is far above eps = 1e-12
L1Normalize(scores) ==
    LET norm == RSum([u \in DOMAIN scores |-> <<Abs(scores[u][1]), scores[u][2]>>], DOMAIN scores)
    IN  IF norm = RZero THEN scores
        ELSE [u \in DOMAIN scores |-> RDiv(scores[u], norm)]

\* weights.py:40  torch.ones( n ) / n
UniformWeights == [u \in 1 .. MetagraphN |-> Rat(1, MetagraphN)]

\* weights.py:24-82  the form of the value compute_weights returns: with an empty
\* history a single tensor of metagraph.n weights (line 40), otherwise the pair
\* ( uids, weights ) of process_weights_for_netuid (line 82)
ReturnForm(q) == IF Len(q) = 0 THEN "tensor" ELSE "pair"

\* train.py:84  `uids, weights = compute_weights( neuron )`: a pair unpacks; a 1-d tensor
\* unpacks only when it has exactly two elements, else ValueError
UnpackRaises(form) == form = "tensor" /\ Len(UniformWeights) # 2

\* compute_weights is not running
NoCw == [i |-> 0, size |-> 0, scores |-> <<>>, last_hotkeys |-> <<>>, raw_weights |-> <<>>]

\* the loop started from scores that are not zero
StartCwFromOnes(q) ==
    [i |-> 1, size |-> Len(q), scores |-> [u \in 1 .. MetagraphN |-> <<1, 1>>],
     last_hotkeys |-> <<>>, raw_weights |-> <<>>]

\* weights.py:43-46  the loop starts: zero scores, no last hotkeys, an iterator over the deque
StartCw(q) ==
    [i |-> 1, size |-> Len(q), scores |-> ZeroScores, last_hotkeys |-> <<>>, raw_weights |-> <<>>]

(***************************************************************************)
(* The state after neuron.__init__ and the first line of train().          *)
(***************************************************************************)
NoEpoch == [form |-> "none", error |-> "none"]

\* no call object, nothing packed, no association run: the validator's own state only
NoCall == [stage |-> "none"]
NoWire == [stage |-> "none"]
NoAssoc == [stage |-> "none"]

\* set_weights was not called yet (as if its last call were long ago)
NoSubmit == [since |-> EpochLength, result |-> "none"]

\* train.py:88  set_weights is called and waits for finalization
SubmitCall == [since |-> 0, result |-> "pending"]

Metagraphs ==
    [hotkeys : [1 .. MetagraphN -> Hotkeys], serving : [1 .. MetagraphN -> BOOLEAN]]

\* metagraph.sync(): serving flags change freely; a rotated uid gets a hotkey not seen before
Resynced(mg) ==
    {new \in Metagraphs : \A u \in 1 .. MetagraphN : new.hotkeys[u] >= mg.hotkeys[u]}

\* last_epoch_block modulo SyncModulus: 0, and 1 for every other residue (the program
\* only tests the residue against 0)
Residues == {0, 1}

Configs == [dont_train : BOOLEAN, no_reward_model : BOOLEAN]

Init ==
    /\ metagraph \in {mg \in Metagraphs : \A u \in 1 .. MetagraphN : mg.hotkeys[u] = 0}
    /\ history = <<>>
    /\ pc = [t \in Threads |-> IF t = "train" THEN "top" ELSE "idle"]
    /\ fpass = [t \in Threads |-> NoFpass]
    /\ last_epoch_block \in Residues
    /\ elapsed = 0
    /\ config \in Configs
    /\ cw = NoCw
    /\ epoch = NoEpoch
    /\ requests = 0
    /\ reply = "none"
    /\ submitted = NoSubmit
    /\ call = NoCall
    /\ wire = NoWire
    /\ assoc = NoAssoc

(***************************************************************************)
(* forward(), in two steps: up to the dendrite pool call (lines 84-129),   *)
(* and from the calls' results to the return (lines 131-182).              *)
(* score_exps / reward_exps: the values the gating model and the reward    *)
(* model can return.                                                       *)
(***************************************************************************)
ForwardBegin(t, arg, random_sample_uids, train_gating_model, apply_backward, record_event, score_exps, pc_wait, pc_returned) ==
    LET avail == AvailableUids(metagraph)
        k == ClampNumToQuery(arg, avail)
        f == [NewFpass(metagraph, arg, random_sample_uids, train_gating_model,
                       apply_backward, record_event) EXCEPT
                !.available_uids = avail,
                !.num_to_query = k]
    IN  IF Len(avail) = 0
        THEN /\ fpass' = [fpass EXCEPT ![t] = f]
             /\ pc' = [pc EXCEPT ![t] = pc_returned]
        ELSE \E scores \in [1 .. MetagraphN -> score_exps] :
             \E uids \in SelectUids(random_sample_uids, avail, scores, k) :
                /\ fpass' = [fpass EXCEPT ![t] =
                        [f EXCEPT !.scores = scores,
                                  !.uids_to_query = uids,
                                  !.assigned = {"scores", "uids_to_query"}]]
                /\ pc' = [pc EXCEPT ![t] = pc_wait]

\* the reward model's values, whatever the configuration
RewardChoicesFromModel(f, successful_uids, reward_exps) == [DOMAIN successful_uids -> reward_exps]

\* without a reward model, the gating scores of the first queried uids instead of the
\* successful ones
RewardChoicesOfQueried(f, successful_uids, reward_exps) ==
    IF ~config.no_reward_model
    THEN [DOMAIN successful_uids -> reward_exps]
    ELSE {[i \in DOMAIN successful_uids |-> At(f.scores, f.uids_to_query[i])]}

\* forward.py:142-155  the rewards of the successful completions: the reward model's
\* (any values), or without a reward model the gating scores of the successful uids
RewardChoices(f, successful_uids, reward_exps) ==
    IF ~config.no_reward_model
    THEN [DOMAIN successful_uids -> reward_exps]
    ELSE {[i \in DOMAIN successful_uids |-> At(f.scores, successful_uids[i])]}

\* the gating update whenever it is asked for, with or without a reward model
TrainsGatingWithoutRewards(f) == f.train_gating_model
\* forward.py:158  the condition of neuron.gating_model.backward
TrainsGating(f) == f.train_gating_model /\ ~config.no_reward_model

\* forward.py:163  the condition of neuron.dendrite_pool.backward
AppliesBackward(f) == f.apply_backward /\ ~config.no_reward_model

\* forward.py:142-168  the models called on a round that has successful completions
Effects(f) ==
    (IF ~config.no_reward_model THEN {"reward_model.reward"} ELSE {})
        \cup (IF TrainsGating(f) THEN {"gating_model.backward"} ELSE {})
        \cup (IF AppliesBackward(f) THEN {"dendrite_pool.backward"} ELSE {})

\* a round without a successful completion put into the history all the same
FailedRoundRecorded(f, q) == QueuePut(q, EventOf(f))
\* forward.py:139-140  a round without a successful completion returns before the put
AfterFailedRound(f, q) == q

\* every successful round put into the history
RecordedAlways(f, q) == QueuePut(q, EventOf(f))
\* no successful round put into the history
RecordedNever(f, q) == q
\* forward.py:178-179  the history after the round
Recorded(f, q) == IF f.record_event THEN QueuePut(q, EventOf(f)) ELSE q

\* forward.py:180,185-208  log_event: with dont_log_events_to_file at its default
\* (neuron.py:89) the event is handed to the sink added at lines 235-238, which was
\* added with enqueue = True: logger.log leaves the record in the sink's queue and
\* returns, and the file is written by the sink's own thread
Logged(f) == [f EXCEPT !.event_log = "enqueued"]

ForwardSettle(t, reward_exps, pc_wait, pc_returned) ==
    /\ pc[t] = pc_wait
    /\ \E outcome \in [DOMAIN fpass[t].uids_to_query -> CallOutcomes] :
        LET f == fpass[t]
            idx == SuccessfulIndices(outcome, 1)
            successful_uids == [i \in DOMAIN idx |-> f.uids_to_query[idx[i]]]
            successful_completions == [i \in DOMAIN idx |-> TextOf(successful_uids[i])]
            \* (num_to_query_arg is not kept by the program: lines 106-107 overwrite it)
            f1 == [f EXCEPT !.num_to_query_arg = f.num_to_query,
                            !.successful_uids = successful_uids,
                            !.successful_completions = successful_completions,
                            !.assigned = @ \cup {"successful_uids", "successful_completions"}]
        IN  IF Len(successful_completions) = 0
            THEN /\ fpass' = [fpass EXCEPT ![t] = f1]
                 /\ pc' = [pc EXCEPT ![t] = pc_returned]
                 /\ history' = AfterFailedRound(f1, history)
            ELSE \E rewards \in RewardChoices(f, successful_uids, reward_exps) :
                 LET f2 == [f1 EXCEPT !.rewards = rewards,
                                      !.completion = <<successful_completions[ArgMax(rewards)]>>,
                                      !.success = TRUE,
                                      !.effects = Effects(f),
                                      !.assigned = @ \cup {"rewards", "completion", "elpased"}]
                 IN  IF f.record_event /\ QueueFull(history)
                     THEN /\ fpass' = [fpass EXCEPT ![t] = f2]
                          /\ pc' = [pc EXCEPT ![t] = "blocked"]
                          /\ UNCHANGED history
                     ELSE /\ fpass' = [fpass EXCEPT ![t] = Logged(f2)]
                          /\ pc' = [pc EXCEPT ![t] = pc_returned]
                          /\ history' = Recorded(f2, history)

(***************************************************************************)
(* train.py : train()                                                      *)
(***************************************************************************)
\* train.py:39-48  the question round
TrainQuestion ==
    /\ pc["train"] = "top"
    /\ ~config.dont_train
    /\ \E arg \in NumToQueryArgs :
        ForwardBegin("train", arg, TRUE, TRUE, TRUE, TRUE, RewardExps, "question_wait", "question_returned")
    /\ UNCHANGED <<metagraph, history, last_epoch_block, elapsed, config, cw, epoch, requests, reply, submitted, call, wire, assoc>>

TrainQuestionSettle ==
    /\ ForwardSettle("train", RewardExps, "question_wait", "question_returned")
    /\ UNCHANGED <<metagraph, last_epoch_block, elapsed, config, cw, epoch, requests, reply, submitted, call, wire, assoc>>

\* train.py:49  `if not question_result.success: continue`
TrainContinue ==
    /\ pc["train"] = "question_returned"
    /\ ~fpass["train"].success
    /\ pc' = [pc EXCEPT !["train"] = "top"]
    /\ fpass' = [fpass EXCEPT !["train"] = NoFpass]
    /\ UNCHANGED <<metagraph, history, last_epoch_block, elapsed, config, cw, epoch, requests, reply, submitted, call, wire, assoc>>

\* train.py:52-61  the answer round
TrainAnswer ==
    /\ pc["train"] = "question_returned"
    /\ fpass["train"].success
    /\ \E arg \in NumToQueryArgs :
        ForwardBegin("train", arg, TRUE, TRUE, TRUE, TRUE, RewardExps, "answer_wait", "resync")
    /\ UNCHANGED <<metagraph, history, last_epoch_block, elapsed, config, cw, epoch, requests, reply, submitted, call, wire, assoc>>

TrainAnswerSettle ==
    /\ ForwardSettle("train", RewardExps, "answer_wait", "resync")
    /\ UNCHANGED <<metagraph, last_epoch_block, elapsed, config, cw, epoch, requests, reply, submitted, call, wire, assoc>>

\* train.py:62-64  `else: time.sleep( 1 )`
TrainSleep ==
    /\ pc["train"] = "top"
    /\ config.dont_train
    /\ pc' = [pc EXCEPT !["train"] = "resync"]
    /\ UNCHANGED <<metagraph, history, fpass, last_epoch_block, elapsed, config, cw, epoch, requests, reply, submitted, call, wire, assoc>>

\* the metagraph resynced whenever the epoch is due
SyncDueAtBoundary == EpochLength - elapsed <= 0

\* train.py:67  last_epoch_block % 10 == 0, the condition of neuron.metagraph.sync()
SyncDue == last_epoch_block % SyncModulus = 0

\* an epoch taken as due in every iteration
EpochDueAlways == TRUE

\* train.py:73-75  blocks_until_epoch = epoch_length - ( block - last_epoch_block ) <= 0
EpochDue == EpochLength - elapsed <= 0

\* the counter left as it is when the boundary is entered
ElapsedKept(e) == e

\* train.py:80  last_epoch_block = neuron.subtensor.block, before compute_weights and
\* set_weights are called: the blocks elapsed since last_epoch_block, e before, are 0
ElapsedAfterReset(e) == 0

\* train.py:66-85 and weights.py:38-46  resync the metagraph if due, then the epoch check;
\* on a boundary last_epoch_block is set and compute_weights is entered: with an empty
\* history it returns at once and the result is unpacked, otherwise its loop starts
TrainResync ==
    /\ pc["train"] = "resync"
    /\ IF SyncDue
       THEN metagraph' \in Resynced(metagraph)
       ELSE UNCHANGED metagraph
    /\ fpass' = [fpass EXCEPT !["train"] = NoFpass]
    /\ IF EpochDue
       THEN /\ last_epoch_block' \in Residues
            /\ elapsed' = ElapsedAfterReset(elapsed)
            /\ IF history = <<>>
               THEN /\ UNCHANGED cw
                    /\ IF UnpackRaises(ReturnForm(history))
                       THEN /\ pc' = [pc EXCEPT !["train"] = "crashed"]
                            /\ epoch' = [form |-> ReturnForm(history), error |-> "ValueError"]
                       ELSE /\ pc' = [pc EXCEPT !["train"] = "submitting"]
                            /\ epoch' = [form |-> ReturnForm(history), error |-> "none"]
               ELSE /\ cw' = StartCw(history)
                    /\ pc' = [pc EXCEPT !["train"] = "computing"]
                    /\ UNCHANGED epoch
       ELSE /\ pc' = [pc EXCEPT !["train"] = "top"]
            /\ UNCHANGED <<last_epoch_block, elapsed, cw, epoch>>
    /\ submitted' = IF pc'["train"] = "submitting" THEN SubmitCall ELSE submitted
    /\ UNCHANGED <<history, config, requests, reply, call, wire, assoc>>

\* the event taken out of the queue when it is processed
QueueDrained(q) == Tail(q)

\* weights.py:46  the loop iterates over neuron.history.queue in place: no get()
QueueAfterIteration(q) == q

\* weights.py:46-63  one iteration of `for event in neuron.history.queue`; the deque
\* iterator raises RuntimeError when the deque was mutated since the loop began
CwStep ==
    /\ pc["train"] = "computing"
    /\ cw.i <= cw.size
    /\ IF Len(history) # cw.size
       THEN /\ pc' = [pc EXCEPT !["train"] = "crashed"]
            /\ epoch' = [form |-> "none", error |-> "RuntimeError"]
            /\ UNCHANGED <<cw, history>>
       ELSE LET st == ProcessEvent([scores |-> cw.scores, last_hotkeys |-> cw.last_hotkeys],
                                   history[cw.i])
            IN  /\ cw' = [cw EXCEPT !.i = @ + 1,
                                    !.scores = st.scores,
                                    !.last_hotkeys = st.last_hotkeys]
                /\ history' = QueueAfterIteration(history)
                /\ UNCHANGED <<pc, epoch>>
    /\ UNCHANGED <<metagraph, fpass, last_epoch_block, elapsed, config, requests, reply, submitted, call, wire, assoc>>

\* weights.py:65-82 and train.py:84  the loop ends; the scores are normalized, handed to
\* process_weights_for_netuid, and its pair is returned and unpacked
CwFinish ==
    /\ pc["train"] = "computing"
    /\ cw.i > cw.size
    /\ IF Len(history) # cw.size
       THEN /\ pc' = [pc EXCEPT !["train"] = "crashed"]
            /\ epoch' = [form |-> "none", error |-> "RuntimeError"]
            /\ UNCHANGED cw
       ELSE /\ cw' = [cw EXCEPT !.raw_weights = L1Normalize(cw.scores)]
            /\ pc' = [pc EXCEPT !["train"] = "submitting"]
            /\ epoch' = [form |-> ReturnForm(history), error |-> "none"]
    /\ submitted' = IF pc'["train"] = "submitting" THEN SubmitCall ELSE submitted
    /\ UNCHANGED <<metagraph, history, fpass, last_epoch_block, elapsed, config, requests, reply, call, wire, assoc>>

\* train.py:88-94  subtensor.set_weights( ..., wait_for_finalization = True ) returns
\* True or False; the result is dropped
TrainSubmitReturn ==
    /\ pc["train"] = "submitting"
    /\ \E ok \in BOOLEAN :
        /\ pc' = [pc EXCEPT !["train"] = "top"]
        /\ cw' = NoCw
        /\ epoch' = NoEpoch
        /\ submitted' = [submitted EXCEPT !.result = IF ok THEN "True" ELSE "False"]
    /\ UNCHANGED <<metagraph, history, fpass, last_epoch_block, elapsed, config, requests, reply, call, wire, assoc>>

TrainNext ==
    \/ TrainQuestion
    \/ TrainQuestionSettle
    \/ TrainContinue
    \/ TrainAnswer
    \/ TrainAnswerSettle
    \/ TrainSleep
    \/ TrainResync
    \/ CwStep
    \/ CwFinish
    \/ TrainSubmitReturn

(***************************************************************************)
(* synapse.py : synapse_forward(), run by an axon worker thread            *)
(***************************************************************************)
\* synapse.py:43-56
SynapseRequest ==
    /\ pc["synapse"] = "idle"
    /\ requests < MaxRequests
    /\ requests' = requests + 1
    /\ reply' = "none"
    /\ \E arg \in NumToQueryArgs :
        ForwardBegin("synapse", arg, FALSE, TRUE, FALSE, TRUE, RewardExps, "wait", "returned")
    /\ UNCHANGED <<metagraph, history, last_epoch_block, elapsed, config, cw, epoch, submitted, call, wire, assoc>>

SynapseSettle ==
    /\ ForwardSettle("synapse", RewardExps, "wait", "returned")
    /\ UNCHANGED <<metagraph, last_epoch_block, elapsed, config, cw, epoch, requests, reply, submitted, call, wire, assoc>>

\* synapse.py:57  `.completion` of the returned fpass: AttributeError when never assigned
SynapseReturn ==
    /\ pc["synapse"] = "returned"
    /\ reply' = IF "completion" \in fpass["synapse"].assigned
                THEN "completion" ELSE "AttributeError"
    /\ pc' = [pc EXCEPT !["synapse"] = "idle"]
    /\ fpass' = [fpass EXCEPT !["synapse"] = NoFpass]
    /\ UNCHANGED <<metagraph, history, last_epoch_block, elapsed, config, cw, epoch, requests, submitted, call, wire, assoc>>

SynapseNext ==
    \/ SynapseRequest
    \/ SynapseSettle
    \/ SynapseReturn

(***************************************************************************)
(* The chain.  Block heights grow without bound; the program reads only    *)
(* last_epoch_block % 10 and whether block - last_epoch_block has reached  *)
(* the epoch length.  The model keeps last_epoch_block modulo SyncModulus  *)
(* and the blocks elapsed since, saturated at EpochLength; an epoch        *)
(* boundary is taken at some height at least EpochLength later, so the new *)
(* last_epoch_block % 10 can be any residue.                               *)
(***************************************************************************)
AdvanceBlock ==
    /\ elapsed' = Min(elapsed + 1, EpochLength)
    /\ submitted' = [submitted EXCEPT !.since = Min(@ + 1, EpochLength)]
    /\ UNCHANGED <<metagraph, history, pc, fpass, last_epoch_block, config, cw, epoch, requests, reply, call, wire, assoc>>

\* the validator without inference traffic: the training loop and the chain
Next ==
    \/ TrainNext
    \/ AdvanceBlock

Spec == Init /\ [][Next]_vars

\* the training loop and the axon worker are threads the interpreter keeps scheduling,
\* and the chain keeps producing blocks
FairSpec ==
    /\ Spec
    /\ WF_vars(TrainNext)
    /\ WF_vars(AdvanceBlock)

(***************************************************************************)
(* The rounds of the training loop and of an axon worker, interleaved,     *)
(* within one epoch (no block is produced) in which no resync is due.      *)
(***************************************************************************)
NextServe ==
    \/ TrainQuestion
    \/ TrainQuestionSettle
    \/ TrainContinue
    \/ TrainAnswer
    \/ TrainAnswerSettle
    \/ TrainResync
    \/ SynapseNext

\* the loop queries (dont_train is off) and last_epoch_block is no multiple of SyncModulus
InitServe ==
    /\ Init
    /\ ~config.dont_train
    /\ last_epoch_block # 0

SpecServe == InitServe /\ [][NextServe]_vars

(***************************************************************************)
(* forward() called directly, on drawn inputs: any serving flags, any      *)
(* num_to_query, either selection mode, with and without record_event,     *)
(* into an empty or a full history.                                        *)
(***************************************************************************)
SampleEvent ==
    [ success |-> TRUE,
      hotkeys |-> [u \in 1 .. MetagraphN |-> 0],
      successful_uids |-> <<0>>,
      successful_completions |-> <<TextOf(0)>>,
      rewards |-> <<1>>,
      completion |-> <<TextOf(0)>> ]

InitForward ==
    /\ metagraph \in {mg \in Metagraphs : \A u \in 1 .. MetagraphN : mg.hotkeys[u] = 0}
    /\ history \in {<<>>, [i \in 1 .. MaxHistory |-> SampleEvent]}
    /\ pc = [t \in Threads |-> IF t = "train" THEN "top" ELSE "idle"]
    /\ fpass = [t \in Threads |-> NoFpass]
    /\ last_epoch_block = 0
    /\ elapsed = 0
    /\ config \in Configs
    /\ cw = NoCw
    /\ epoch = NoEpoch
    /\ requests = 0
    /\ reply = "none"
    /\ submitted = NoSubmit
    /\ call = NoCall
    /\ wire = NoWire
    /\ assoc = NoAssoc

CallForward ==
    /\ pc["caller"] = "idle"
    /\ \E arg \in ForwardArgs, random_sample_uids \in BOOLEAN, record_event \in BOOLEAN :
        ForwardBegin("caller", arg, random_sample_uids, TRUE, TRUE, record_event,
                     DrawnRewardExps, "wait", "returned")
    /\ UNCHANGED <<metagraph, history, last_epoch_block, elapsed, config, cw, epoch, requests, reply, submitted, call, wire, assoc>>

CallSettle ==
    /\ ForwardSettle("caller", DrawnRewardExps, "wait", "returned")
    /\ UNCHANGED <<metagraph, last_epoch_block, elapsed, config, cw, epoch, requests, reply, submitted, call, wire, assoc>>

NextForward ==
    \/ CallForward
    \/ CallSettle

SpecForward == InitForward /\ [][NextForward]_vars

(***************************************************************************)
(* forward() called directly with any train_gating_model, apply_backward   *)
(* and record_event, the other arguments at their defaults (lines 51-52).  *)
(***************************************************************************)
CallForwardWith ==
    /\ pc["caller"] = "idle"
    /\ \E train_gating_model \in BOOLEAN, apply_backward \in BOOLEAN, record_event \in BOOLEAN :
        ForwardBegin("caller", -1, TRUE, train_gating_model, apply_backward, record_event,
                     DrawnRewardExps, "wait", "returned")
    /\ UNCHANGED <<metagraph, history, last_epoch_block, elapsed, config, cw, epoch, requests, reply, submitted, call, wire, assoc>>

NextEffects ==
    \/ CallForwardWith
    \/ CallSettle

SpecEffects == InitForward /\ [][NextEffects]_vars

(***************************************************************************)
(* forward() called directly while its collaborators fail: the gating      *)
(* model or the reward model raises, or the write of the event log fails.  *)
(***************************************************************************)
\* an exception raised inside forward() taken as an ordinary return
PcExceptionMasked(pc_returned) == pc_returned
\* forward.py:46-182 has no try: an exception raised by a call leaves forward()
PcAfterException(pc_returned) == "raised"

\* forward.py:113  neuron.gating_model( ... ) raises
GatingModelRaises ==
    /\ pc["caller"] = "idle"
    /\ AvailableUids(metagraph) # <<>>
    /\ \E train_gating_model \in BOOLEAN, apply_backward \in BOOLEAN, record_event \in BOOLEAN :
        LET avail == AvailableUids(metagraph)
            f == [NewFpass(metagraph, -1, TRUE, train_gating_model, apply_backward, record_event)
                    EXCEPT !.available_uids = avail,
                           !.num_to_query = ClampNumToQuery(-1, avail),
                           !.raised = "gating_model"]
        IN  fpass' = [fpass EXCEPT !["caller"] = f]
    /\ pc' = [pc EXCEPT !["caller"] = PcAfterException("returned")]
    /\ UNCHANGED <<metagraph, history, last_epoch_block, elapsed, config, cw, epoch, requests, reply, submitted, call, wire, assoc>>

\* forward.py:150  neuron.reward_model.reward( ... ) raises, or
\* forward.py:160  neuron.gating_model.backward( ... ) raises after the rewards were set
ScoringRaises ==
    /\ pc["caller"] = "wait"
    /\ \E outcome \in [DOMAIN fpass["caller"].uids_to_query -> CallOutcomes] :
        LET f == fpass["caller"]
            idx == SuccessfulIndices(outcome, 1)
            successful_uids == [i \in DOMAIN idx |-> f.uids_to_query[idx[i]]]
            successful_completions == [i \in DOMAIN idx |-> TextOf(successful_uids[i])]
            f1 == [f EXCEPT !.num_to_query_arg = f.num_to_query,
                            !.successful_uids = successful_uids,
                            !.successful_completions = successful_completions,
                            !.assigned = @ \cup {"successful_uids", "successful_completions"}]
        IN  /\ Len(successful_completions) > 0
            /\ \/ /\ ~config.no_reward_model
                  /\ fpass' = [fpass EXCEPT !["caller"] =
                          [f1 EXCEPT !.raised = "reward_model.reward"]]
               \/ /\ TrainsGating(f)
                  /\ \E rewards \in RewardChoices(f, successful_uids, DrawnRewardExps) :
                        fpass' = [fpass EXCEPT !["caller"] =
                            [f1 EXCEPT !.rewards = rewards,
                                       !.assigned = @ \cup {"rewards"},
                                       !.effects = {"reward_model.reward"},
                                       !.raised = "gating_model.backward"]]
    /\ pc' = [pc EXCEPT !["caller"] = PcAfterException("returned")]
    /\ UNCHANGED <<metagraph, history, last_epoch_block, elapsed, config, cw, epoch, requests, reply, submitted, call, wire, assoc>>

\* the thread of the event sink writes the queued record to events.log, or fails to
SinkWrite ==
    /\ fpass["caller"].event_log = "enqueued"
    /\ \E result \in {"written", "failed"} :
        fpass' = [fpass EXCEPT !["caller"].event_log = result]
    /\ UNCHANGED <<metagraph, history, pc, last_epoch_block, elapsed, config, cw, epoch, requests, reply, submitted, call, wire, assoc>>

NextFaults ==
    \/ CallForwardWith
    \/ CallSettle
    \/ GatingModelRaises
    \/ ScoringRaises
    \/ SinkWrite

SpecFaults == InitForward /\ [][NextFaults]_vars

(***************************************************************************)
(* compute_weights() run on a drawn history: every non-empty queue of at   *)
(* most MaxHistory successful events, with any hotkey snapshots.           *)
(***************************************************************************)
DrawnUidLists ==
    UNION {{p \in [1 .. m -> Uids] : \A i, j \in 1 .. m : p[i] = p[j] => i = j} :
            m \in 1 .. MetagraphN}

DrawnEvents ==
    UNION {{[ success |-> TRUE,
              hotkeys |-> hk,
              successful_uids |-> uids,
              successful_completions |-> [i \in DOMAIN uids |-> TextOf(uids[i])],
              rewards |-> rewards,
              completion |-> <<TextOf(uids[ArgMax(rewards)])>> ] :
                hk \in [1 .. MetagraphN -> Hotkeys], rewards \in [DOMAIN uids -> DrawnRewardExps]} :
            uids \in DrawnUidLists}

DrawnHistories == UNION {[1 .. m -> DrawnEvents] : m \in 1 .. MaxHistory}

InitWeights ==
    /\ history \in DrawnHistories
    /\ metagraph = [hotkeys |-> history[Len(history)].hotkeys,
                    serving |-> [u \in 1 .. MetagraphN |-> TRUE]]
    /\ pc = [t \in Threads |-> IF t = "train" THEN "computing" ELSE "idle"]
    /\ fpass = [t \in Threads |-> NoFpass]
    /\ last_epoch_block = 0
    /\ elapsed = 0
    /\ config \in {c \in Configs : ~c.dont_train /\ ~c.no_reward_model}
    /\ cw = StartCw(history)
    /\ epoch = NoEpoch
    /\ requests = 0
    /\ reply = "none"
    /\ submitted = NoSubmit
    /\ call = NoCall
    /\ wire = NoWire
    /\ assoc = NoAssoc

\* compute_weights returned and is called again on the unchanged history
CwAgain ==
    /\ pc["train"] = "submitting"
    /\ pc' = [pc EXCEPT !["train"] = "computing"]
    /\ cw' = StartCw(history)
    /\ epoch' = NoEpoch
    /\ UNCHANGED <<metagraph, history, fpass, last_epoch_block, elapsed, config, requests, reply, submitted, call, wire, assoc>>

NextWeights ==
    \/ CwStep
    \/ CwFinish
    \/ CwAgain

SpecWeights == InitWeights /\ [][NextWeights]_vars

(***************************************************************************)
(* compute_weights() run by the training loop while an axon worker serves  *)
(* an inference request: the history holds one drawn event and has room.   *)
(***************************************************************************)
InitRace ==
    /\ history \in {h \in DrawnHistories : Len(h) = 1}
    /\ metagraph \in {mg \in Metagraphs : mg.hotkeys = history[1].hotkeys}
    /\ pc = [t \in Threads |-> IF t = "train" THEN "computing" ELSE "idle"]
    /\ fpass = [t \in Threads |-> NoFpass]
    /\ last_epoch_block = 0
    /\ elapsed = 0
    /\ config \in {c \in Configs : ~c.dont_train}
    /\ cw = StartCw(history)
    /\ epoch = NoEpoch
    /\ requests = 0
    /\ reply = "none"
    /\ submitted = NoSubmit
    /\ call = NoCall
    /\ wire = NoWire
    /\ assoc = NoAssoc

NextRace ==
    \/ CwStep
    \/ CwFinish
    \/ SynapseNext

SpecRace == InitRace /\ [][NextRace]_vars

(***************************************************************************)
(* calls.py : TextPromptingDendriteForwardCall.  The object is created by  *)
(* the dendrite, which is not part of these sources: the class declares no *)
(* _asyncio_future, so the attribute is absent unless its creator set it   *)
(* (to None, for the property at lines 94-106 to fill it, or to a future). *)
(***************************************************************************)
\* Python's None
PyNone == "None"

\* the completion texts a peer's response can carry
Completions == {"", "hello im a chat bot."}

\* grpc status codes of an RpcError
RpcCodes == {"UNAVAILABLE", "DEADLINE_EXCEEDED"}

\* how the awaited request ends (calls.py:127-146)
RequestOutcomes == {"response", "RpcError", "TimeoutError", "Exception"}

\* _asyncio_future as the creator left it: not set, None, or a request it already made
FutureAttrs == {"absent", PyNone, "future"}

\* calls.py:62-80  the properties that call() when their field is None
PropertyNames == {"return_code", "return_message", "response_proto", "completion"}

\* calls.py:30-42  the object after __init__ (fields without the leading underscore);
\* sent, outcome, reinvoked, raised, reader and read observe the object from outside
NewCall(future_attr) ==
    [ stage |-> "idle",
      completed |-> FALSE,
      asyncio_future |-> future_attr,
      response_proto |-> PyNone,
      return_code |-> PyNone,
      return_message |-> PyNone,
      completion |-> PyNone,
      sent |-> 0,
      outcome |-> <<>>,
      reinvoked |-> FALSE,
      raised |-> "none",
      reader |-> "none",
      read |-> <<>> ]

\* every failure folded into UnknownException
FailureCodeUnknown(outcome, code) == "UnknownException"

\* calls.py:132-148  the return code of a failed request
FailureCode(outcome, code) ==
    CASE outcome = "RpcError" -> code
      [] outcome = "TimeoutError" -> "Timeout"
      [] OTHER -> "UnknownException"

\* calls.py:126-150  the try statement, when the await ended in outcome
AfterAwait(c, outcome, text, code) ==
    IF outcome = "response"
    THEN [c EXCEPT !.response_proto = text,
                   !.return_code = "Success",
                   !.return_message = "Success"]
    ELSE [c EXCEPT !.return_code = FailureCode(outcome, code),
                   !.return_message = "error",
                   !.completion = ""]

\* calls.py:152-167  finally: completed is set, then the response is logged with
\* len( self._completion ), a TypeError when _completion is None
Finally(c) ==
    [c EXCEPT !.completed = TRUE,
              !.stage = "idle",
              !.raised = IF c.completion = PyNone THEN "TypeError" ELSE @]

\* async_call has run to its end; a property that called it returns its field, unless
\* the exception of async_call passes through it
Complete(c, outcome, text, code) ==
    LET c1 == Finally(AfterAwait(c, outcome, text, code))
    IN  [c1 EXCEPT !.outcome = IF outcome = "RpcError" THEN <<outcome, code>>
                                ELSE IF outcome = "response" THEN <<outcome, text>>
                                ELSE <<outcome>>,
                   !.reader = "none",
                   !.read = IF c.reader = "none" THEN @
                            ELSE IF c1.completion = PyNone THEN <<c.reader, "raises TypeError">>
                            ELSE <<c.reader, c1[c.reader]>>]

\* the guard at the top of async_call skipped
NeverCompleted(c) == FALSE

\* calls.py:110  `if self.completed: return`
AlreadyCompleted(c) == c.completed

\* calls.py:109-127 and 94-106  async_call() entered, on behalf of property reader or
\* directly: it returns at once when completed; else self.asyncio_future is evaluated
\* inside the try: an AttributeError when the attribute is absent (caught at line 146),
\* else the request is sent unless a future is there already, and awaited
Invoke(c, reader) ==
    IF AlreadyCompleted(c)
    THEN [c EXCEPT !.reinvoked = TRUE,
                   !.read = IF reader = "none" THEN @ ELSE <<reader, c[reader]>>]
    ELSE IF c.asyncio_future = "absent"
    THEN Complete([c EXCEPT !.reader = reader], "Exception", "", "")
    ELSE [c EXCEPT !.stage = "awaiting",
                   !.reader = reader,
                   !.sent = IF c.asyncio_future = PyNone THEN @ + 1 ELSE @,
                   !.asyncio_future = "future"]

\* what forward() keeps of a call (forward.py:135)
PassesFilter(c) == c.completion # PyNone /\ c.completion # ""

\* the variables of the validator, which a call object does not touch
validator_vars ==
    <<metagraph, history, pc, fpass, last_epoch_block, elapsed, config, cw, epoch, requests, reply,
      submitted>>

\* calls.py:109-111, 169-171  call() / async_call() invoked from outside
CallAsyncCall ==
    /\ call.stage = "idle"
    /\ call.sent <= MaxSent
    /\ call' = Invoke(call, "none")
    /\ UNCHANGED <<validator_vars, wire, assoc>>

\* calls.py:127-167  the awaited request ends
CallAwaitEnds ==
    /\ call.stage = "awaiting"
    /\ \E outcome \in RequestOutcomes, text \in Completions, code \in RpcCodes :
        call' = Complete(call, outcome, text, code)
    /\ UNCHANGED <<validator_vars, wire, assoc>>

\* calls.py:62-80  a property is read: it calls call() when its field is None
ReadProperty ==
    /\ call.stage = "idle"
    /\ call.sent <= MaxSent
    /\ \E name \in PropertyNames :
        call' = IF call[name] # PyNone
                THEN [call EXCEPT !.read = <<name, call[name]>>]
                ELSE Invoke(call, name)
    /\ UNCHANGED <<validator_vars, wire, assoc>>

\* the validator, constructed and not running
ValidatorAtRest ==
    /\ metagraph = [hotkeys |-> [u \in 1 .. MetagraphN |-> 0],
                    serving |-> [u \in 1 .. MetagraphN |-> TRUE]]
    /\ history = <<>>
    /\ pc = [t \in Threads |-> "idle"]
    /\ fpass = [t \in Threads |-> NoFpass]
    /\ last_epoch_block = 0
    /\ elapsed = 0
    /\ config = [dont_train |-> TRUE, no_reward_model |-> FALSE]
    /\ cw = NoCw
    /\ epoch = NoEpoch
    /\ requests = 0
    /\ reply = "none"
    /\ submitted = NoSubmit

InitCall ==
    /\ ValidatorAtRest
    /\ call \in {NewCall(a) : a \in FutureAttrs}
    /\ wire = NoWire
    /\ assoc = NoAssoc

NextCall ==
    \/ CallAsyncCall
    \/ CallAwaitEnds
    \/ ReadProperty

SpecCall == InitCall /\ [][NextCall]_vars

(***************************************************************************)
(* calls.py : packed_messages, and synapse.py : process_messages.  A text  *)
(* is a sequence of characters.  json.dumps writes a dict of two strings   *)
(* as {"role": "...", "content": "..."}, escaping the quote and the        *)
(* backslash inside a string; json.loads scans it back.                    *)
(***************************************************************************)
Quote == "\""
Backslash == "\\"
\* the characters of a message: a letter, a JSON delimiter, and the two that are escaped
Chars == {"a", ":", Quote, Backslash}
Texts == UNION {[1 .. n -> Chars] : n \in 0 .. MaxStrLen}
RoleKey == <<"r", "o", "l", "e">>
ContentKey == <<"c", "o", "n", "t", "e", "n", "t">>
\* the roles of train.py:41 and example.py:80
RoleNames == {<<"s", "y", "s", "t", "e", "m">>, <<"u", "s", "e", "r">>,
              <<"a", "s", "s", "i", "s", "t", "a", "n", "t">>}

\* json.encoder: the escape of one character of a string
EscapeNothing(ch) == <<ch>>
EscapeChar(ch) ==
    IF ch \in {Quote, Backslash} THEN <<Backslash, ch>> ELSE <<ch>>

RECURSIVE EscapeText(_)
EscapeText(text) ==
    IF text = <<>> THEN <<>> ELSE EscapeChar(Head(text)) \o EscapeText(Tail(text))

\* json.dumps( str )
JsonString(text) == <<Quote>> \o EscapeText(text) \o <<Quote>>

\* json.dumps({"role": role, "content": message}), default separators ', ' and ': '
Dumps(role, message) ==
    <<"{">> \o JsonString(RoleKey) \o <<":", " ">> \o JsonString(role) \o <<",", " ">>
        \o JsonString(ContentKey) \o <<":", " ">> \o JsonString(message) \o <<"}">>

\* zip( roles, messages ) stops at the shorter list
PackedMessages(roles, messages) ==
    [i \in 1 .. Min(Len(roles), Len(messages)) |-> Dumps(roles[i], messages[i])]

\* json.decoder raises JSONDecodeError on a malformed text
JSONDecodeError == [ok |-> FALSE]
CharAt(text, i) == IF i \in 1 .. Len(text) THEN text[i] ELSE "EOF"

RECURSIVE SkipWhitespace(_, _)
SkipWhitespace(text, i) ==
    IF CharAt(text, i) = " " THEN SkipWhitespace(text, i + 1) ELSE i

\* json.decoder.py_scanstring: text[i] follows the opening quote
RECURSIVE py_scanstring(_, _, _)
py_scanstring(text, i, chunks) ==
    CASE CharAt(text, i) = "EOF" -> JSONDecodeError
      [] CharAt(text, i) = Quote -> [ok |-> TRUE, value |-> chunks, end |-> i + 1]
      [] CharAt(text, i) = Backslash ->
            IF CharAt(text, i + 1) \in {Quote, Backslash}
            THEN py_scanstring(text, i + 2, Append(chunks, CharAt(text, i + 1)))
            ELSE JSONDecodeError
      [] OTHER -> py_scanstring(text, i + 1, Append(chunks, CharAt(text, i)))

\* json.decoder.JSONObject, for string values: text[i] follows the opening brace;
\* a key met again replaces the earlier value
RECURSIVE JSONObject(_, _, _)
JSONObject(text, i, pairs) ==
    LET k == SkipWhitespace(text, i)
        key == py_scanstring(text, k + 1, <<>>)
        c == SkipWhitespace(text, key.end)
        v == SkipWhitespace(text, c + 1)
        val == py_scanstring(text, v + 1, <<>>)
        e == SkipWhitespace(text, val.end)
    IN  IF CharAt(text, k) # Quote \/ ~key.ok THEN JSONDecodeError
        ELSE IF CharAt(text, c) # ":" THEN JSONDecodeError
        ELSE IF CharAt(text, v) # Quote \/ ~val.ok THEN JSONDecodeError
        ELSE IF CharAt(text, e) = ","
             THEN JSONObject(text, e + 1, (key.value :> val.value) @@ pairs)
        ELSE IF CharAt(text, e) = "}"
             THEN [ok |-> TRUE, value |-> (key.value :> val.value) @@ pairs, end |-> e + 1]
        ELSE JSONDecodeError

\* json.loads( text )
Loads(text) ==
    LET s == SkipWhitespace(text, 1)
        obj == JSONObject(text, s + 1, <<>>)
    IN  IF CharAt(text, s) # "{" \/ ~obj.ok THEN JSONDecodeError
        ELSE IF SkipWhitespace(text, obj.end) # Len(text) + 1 THEN JSONDecodeError
        ELSE [ok |-> TRUE, value |-> obj.value]

\* process_messages( messages ): the roles and contents read so far are carried along
RECURSIVE process_messages(_, _, _)
process_messages(messages, roles, contents) ==
    IF messages = <<>> THEN [raised |-> "none", roles |-> roles, contents |-> contents]
    ELSE LET message_dict == Loads(Head(messages))
         IN  IF ~message_dict.ok THEN [raised |-> "JSONDecodeError"]
             ELSE IF ~({RoleKey, ContentKey} \subseteq DOMAIN message_dict.value)
                  THEN [raised |-> "KeyError"]
             ELSE process_messages(Tail(messages),
                                   Append(roles, message_dict.value[RoleKey]),
                                   Append(contents, message_dict.value[ContentKey]))

\* a call object constructed with its roles and messages; its _packed_messages is None
NewWire(roles, messages) ==
    [stage |-> "new", roles |-> roles, messages |-> messages,
     packed_messages |-> <<>>, processed |-> [raised |-> "none"]]

\* the packed_messages property: packs on the first read, returns the same list afterwards
ReadPackedMessages ==
    /\ wire.stage = "new"
    /\ wire' = [wire EXCEPT !.stage = "packed",
                            !.packed_messages = PackedMessages(wire.roles, wire.messages)]
    /\ UNCHANGED <<validator_vars, call, assoc>>

\* the receiving validator unpacks the request's messages
ProcessMessages ==
    /\ wire.stage = "packed"
    /\ wire' = [wire EXCEPT !.stage = "processed",
                            !.processed = process_messages(wire.packed_messages, <<>>, <<>>)]
    /\ UNCHANGED <<validator_vars, call, assoc>>

InitPack ==
    /\ ValidatorAtRest
    /\ call = NoCall
    /\ \E n, m \in 0 .. MaxMessages :
         \E roles \in [1 .. n -> RoleNames], messages \in [1 .. m -> Texts] :
            wire = NewWire(roles, messages)
    /\ assoc = NoAssoc

NextPack ==
    \/ ReadPackedMessages
    \/ ProcessMessages

SpecPack == InitPack /\ [][NextPack]_vars

(***************************************************************************)
(* association.py : associate_extrinsic().  The wallet, the chain and the  *)
(* prompt are outside these sources: their answers are drawn.  The call    *)
(* runs up to submit_extrinsic, and, when it waits, ends with the chain's  *)
(* response.                                                               *)
(***************************************************************************)
\* substrate.get_payment_info: a quoted fee, or an exception
PaymentInfos ==
    {[raised |-> TRUE, partialFee |-> 0]}
        \cup {[raised |-> FALSE, partialFee |-> f] : f \in 0 .. MaxRao}
\* balances around the fees that can be asked
Balances == (0 .. MaxRao + 1) \cup {FallbackFee + k : k \in 0 .. MaxRao}

\* lines 99-107
Fee(payment_info) ==
    IF payment_info.raised THEN FallbackFee ELSE payment_info.partialFee

\* line 111, negated
EnoughForFee(account_balance, fee, existential_deposit) == account_balance >= fee
EnoughBalance(account_balance, fee, existential_deposit) ==
    ~(account_balance < fee + existential_deposit)

NewAssoc(args, world) ==
    [stage |-> "called", args |-> args, world |-> world, submitted |-> FALSE,
     result |-> "none", is_success |-> FALSE, is_associated_after |-> FALSE]

\* lines 58-127: the checks before the extrinsic, and its submission
AssociateBegin ==
    /\ assoc.stage = "called"
    /\ LET a == assoc.args
           w == assoc.world
           returns(value) == [assoc EXCEPT !.stage = "returned", !.result = value]
       IN  assoc' =
             IF ~a.hotkey_matches
             THEN [assoc EXCEPT !.stage = "raised", !.result = "ValueError"]
             ELSE IF ~w.address_valid THEN returns("False")
             ELSE IF w.is_associated THEN returns("True")
             ELSE IF ~EnoughBalance(w.account_balance, Fee(w.payment_info),
                                    w.existential_deposit)
                  THEN returns("False")
             ELSE IF a.prompt /\ ~w.confirm THEN returns("False")
             ELSE IF ~a.wait_for_finalization /\ ~a.wait_for_inclusion
                  THEN [assoc EXCEPT !.stage = "returned", !.submitted = TRUE,
                                     !.result = "True"]
             ELSE [assoc EXCEPT !.stage = "waiting", !.submitted = TRUE]
    /\ UNCHANGED <<validator_vars, call, wire>>

\* lines 130-149: the chain's response to a waited submission
AssociateSettle ==
    /\ assoc.stage = "waiting"
    /\ \E is_success, is_associated \in BOOLEAN :
         assoc' = [assoc EXCEPT !.stage = "returned",
                                !.is_success = is_success,
                                !.is_associated_after = is_associated,
                                !.result = IF is_success /\ is_associated
                                           THEN "True" ELSE "False"]
    /\ UNCHANGED <<validator_vars, call, wire>>

InitAssociate ==
    /\ ValidatorAtRest
    /\ call = NoCall
    /\ wire = NoWire
    /\ \E args \in [hotkey_matches : BOOLEAN, prompt : BOOLEAN,
                    wait_for_inclusion : BOOLEAN, wait_for_finalization : BOOLEAN],
          world \in [address_valid : BOOLEAN, is_associated : BOOLEAN,
                     account_balance : Balances, payment_info : PaymentInfos,
                     existential_deposit : 0 .. MaxRao, confirm : BOOLEAN] :
         assoc = NewAssoc(args, world)

NextAssociate ==
    \/ AssociateBegin
    \/ AssociateSettle

SpecAssociate == InitAssociate /\ [][NextAssociate]_vars

(***************************************************************************)
(* Properties.                                                             *)
(***************************************************************************)
\* the uids of a list
UidSet(uids) == Range(uids)

\* a round of thread t whose uids_to_query were selected
Selected(t) == "uids_to_query" \in fpass[t].assigned

NoDuplicates(s) == \A i, j \in DOMAIN s : s[i] = s[j] => i = j

\* C1: for every non-empty available set and every requested k >= 0, in random and in
\* ranked mode, the queried uids are exactly min(k, |available|) uids, without
\* duplicates, all of them available.
C1_SelectionSize ==
    \A t \in Threads :
        (Selected(t) /\ pc[t] = "wait" /\ fpass[t].num_to_query_arg >= 0) =>
            /\ Len(fpass[t].uids_to_query)
                 = Min(fpass[t].num_to_query_arg, Len(fpass[t].available_uids))
            /\ NoDuplicates(fpass[t].uids_to_query)
            /\ UidSet(fpass[t].uids_to_query) \subseteq UidSet(fpass[t].available_uids)

\* thread t's round becomes successful in this step and is to be recorded
RecordsRound(t) == ~fpass[t].success /\ fpass'[t].success /\ fpass'[t].record_event

\* C2: when a successful round is recorded while the history holds MaxHistory events,
\* the oldest event is evicted and the new one appended.
C2_EvictsOldest ==
    [][\A t \in Threads :
        (RecordsRound(t) /\ Len(history) = MaxHistory) =>
            history' = Append(Tail(history), EventOf(fpass'[t]))]_vars

\* C3: the history never holds more than MaxHistory events, whatever rounds the
\* training loop and the inference requests run.
C3_HistoryBounded == Len(history) <= MaxHistory

\* a round was to be recorded into a history already holding MaxHistory events
C3_Witness ==
    /\ Len(history) = MaxHistory
    /\ \E t \in Threads : pc[t] = "blocked" /\ fpass[t].success

\* C4: the main loop is never stuck: with the chain advancing, under fairness, the epoch
\* boundary (weights computed and submitted) is reached again and again.
C4_EpochsRecur == []<>(pc["train"] = "submitting")

\* the step ends a main-loop iteration without an epoch boundary
IterationEndsWithoutEpoch ==
    /\ pc["train"] \in {"question_returned", "resync"}
    /\ pc'["train"] = "top"

\* the step takes the epoch boundary
TakesEpochBoundary ==
    /\ pc["train"] = "resync"
    /\ pc'["train"] \in {"computing", "submitting", "crashed"}

\* C5: an iteration in which the elapsed blocks have reached the epoch length takes the
\* epoch boundary, whether its rounds succeeded or failed or querying is off; an
\* iteration in which they have not does not take it.
C5_EpochTakenWhenDue ==
    [][/\ IterationEndsWithoutEpoch => ~EpochDue
       /\ TakesEpochBoundary => EpochDue]_vars

\* C6: with an empty history compute_weights returns ( uids, weights ) like in the
\* non-empty case and the epoch boundary does not raise.
C6_EmptyHistoryReturnsPair ==
    /\ epoch.form # "tensor"
    /\ epoch.error # "ValueError"

RotatedAt(u, j) == j >= 2 /\ history[j].hotkeys[u] # history[j - 1].hotkeys[u]

\* the event the loop has just processed (0: none)
Processed == IF pc["train"] \in {"computing", "submitting"} THEN cw.i - 1 ELSE 0

\* the softmax-normalized reward of uid u - 1 in event e, as a fraction of the exp-rewards
NormalizedReward(e, u) ==
    LET k == CHOOSE i \in DOMAIN e.successful_uids : e.successful_uids[i] + 1 = u
    IN  Rat(e.rewards[k], SeqSum(e.rewards))

Participates(e, u) == \E i \in DOMAIN e.successful_uids : e.successful_uids[i] + 1 = u

\* C8: a rotated uid is reset before the event's update, so right after the
\* event its score is (1 - alpha) * its normalized reward if it is in the successful set,
\* and 0 if not.
C8_ResetBeforeUpdate ==
    \A u \in 1 .. MetagraphN :
        RotatedAt(u, Processed) =>
            cw.scores[u] = IF Participates(history[Processed], u)
                           THEN RMul(<<99, 100>>, NormalizedReward(history[Processed], u))
                           ELSE RZero

\* the step processes one event of the history
ProcessesEvent == pc["train"] = "computing" /\ cw'.i = cw.i + 1

\* C9: processing an event leaves the score of every uid that is not in its successful
\* set and did not rotate exactly as it was.
C9_AbsentKeepsScore ==
    [][ProcessesEvent =>
        \A u \in 1 .. MetagraphN :
            (~Participates(history[cw.i], u) /\ ~RotatedAt(u, cw.i)) =>
                cw'.scores[u] = cw.scores[u]]_vars

\* a uid with a score from an earlier event was absent from the event just processed
C9_Witness ==
    \E u \in 1 .. MetagraphN :
        /\ Processed >= 2
        /\ ~Participates(history[Processed], u)
        /\ ~RotatedAt(u, Processed)
        /\ cw.scores[u] # RZero

\* alpha * old + (1 - alpha) * sample with alpha = 1 / 100, for fractions old and sample
Ema(old, sample) ==
    Rat(old[1] * sample[2] + 99 * sample[1] * old[2], 100 * old[2] * sample[2])

\* C10: the scores start at zero, the events are processed oldest first, and each
\* successful uid that did not rotate gets alpha * old + (1 - alpha) * normalized reward
\* with alpha = 0.01; with a single event the raw weights are its normalized rewards on
\* the successful uids and 0 elsewhere.
C10_UpdateRule ==
    /\ []((pc["train"] = "computing" /\ cw.i = 1) => cw.scores = ZeroScores)
    /\ [][ProcessesEvent =>
            \A u \in 1 .. MetagraphN :
                (Participates(history[cw.i], u) /\ ~RotatedAt(u, cw.i)) =>
                    cw'.scores[u] = Ema(cw.scores[u], NormalizedReward(history[cw.i], u))]_vars
    /\ []((pc["train"] = "submitting" /\ cw.size = 1) =>
            \A u \in 1 .. MetagraphN :
                cw.raw_weights[u] = IF Participates(history[1], u)
                                    THEN NormalizedReward(history[1], u)
                                    ELSE RZero)

\* a single event with two successful uids of different rewards was turned into weights,
\* and a second event updated a uid that already had a score
C10_Witness ==
    \/ /\ pc["train"] = "submitting"
       /\ cw.size = 1
       /\ Len(history[1].successful_uids) = 2
       /\ history[1].rewards[1] # history[1].rewards[2]
    \/ /\ Processed = 2
       /\ \E u \in 1 .. MetagraphN :
            /\ Participates(history[1], u)
            /\ Participates(history[2], u)
            /\ ~RotatedAt(u, 2)

\* compute_weights has normalized the scores of a non-empty history, not all of them zero
NormalizedNonZero ==
    /\ pc["train"] = "submitting"
    /\ cw.size > 0
    /\ cw.scores # ZeroScores

\* C11: with a non-empty history and scores that are not all zero, the raw weights are
\* one per known peer, all non-negative, and sum to 1.
C11_RawWeightsDistribution ==
    NormalizedNonZero =>
        /\ Len(cw.raw_weights) = MetagraphN
        /\ \A u \in 1 .. MetagraphN : cw.raw_weights[u][1] >= 0 /\ cw.raw_weights[u][2] > 0
        /\ RSum(cw.raw_weights, 1 .. MetagraphN) = <<1, 1>>

\* the normalized scores had two non-zero entries, not equal
C11_Witness ==
    /\ NormalizedNonZero
    /\ \E u, v \in 1 .. MetagraphN :
        /\ cw.scores[u] # RZero
        /\ cw.scores[v] # RZero
        /\ cw.scores[u] # cw.scores[v]

\* the raw weights as a function of the history alone
WeightsOf(q) == L1Normalize(ScoresAfter(q, Len(q)).scores)

Returned(t) == pc[t] \in {"returned", "question_returned", "resync"} /\ fpass[t] # NoFpass

\* C13: a round with no serving peer returns with success = False and an empty list of
\* successful completions, and dispatches no request.
C13_NoPeersReturnsEmpty ==
    \A t \in Threads :
        (Returned(t) /\ fpass[t].available_uids = <<>>) =>
            /\ ~fpass[t].success
            /\ fpass[t].uids_to_query = <<>>
            /\ "successful_completions" \in fpass[t].assigned
            /\ fpass[t].successful_completions = <<>>

\* C14: synapse_forward returns to the requester without raising, also when its round
\* failed (no serving peer, or no successful completion).
C14_SynapseFailureSilent == reply # "AttributeError"

\* a is b with some elements left out, the others in b's order
IsSubsequence(a, b) ==
    \E f \in [DOMAIN a -> DOMAIN b] :
        /\ \A i, j \in DOMAIN a : i < j => f[i] < f[j]
        /\ \A i \in DOMAIN a : a[i] = b[f[i]]

\* thread t's round has filtered the results of its calls
Filtered(t) == "successful_uids" \in fpass[t].assigned

\* C15: in every round, and in the event recorded for it, the successful uids are among
\* the queried uids and in their order, and the queried uids are among the available ones.
C15_UidContainment ==
    \A t \in Threads :
        /\ Selected(t) =>
            UidSet(fpass[t].uids_to_query) \subseteq UidSet(fpass[t].available_uids)
        /\ Filtered(t) =>
            /\ UidSet(fpass[t].successful_uids) \subseteq UidSet(fpass[t].uids_to_query)
            /\ Len(fpass[t].successful_uids) <= Len(fpass[t].uids_to_query)
            /\ IsSubsequence(fpass[t].successful_uids, fpass[t].uids_to_query)
        /\ (Returned(t) /\ fpass[t].success /\ fpass[t].record_event) =>
            /\ Len(history) > 0
            /\ history[Len(history)].successful_uids = fpass[t].successful_uids

\* a recorded round that queried two uids out of ascending order, one of them successful
C15_Witness ==
    \E t \in Threads :
        /\ Returned(t) /\ fpass[t].success /\ fpass[t].record_event
        /\ Len(fpass[t].uids_to_query) = 2
        /\ fpass[t].uids_to_query[1] > fpass[t].uids_to_query[2]
        /\ Len(fpass[t].successful_uids) = 1

\* i is the lowest index at which rewards is maximal
FirstMaximal(rewards, i) ==
    /\ \A j \in DOMAIN rewards : rewards[j] <= rewards[i]
    /\ \A j \in DOMAIN rewards : j < i => rewards[j] < rewards[i]

\* C16: in every successful round the chosen completion is the successful completion of
\* maximal reward, the one of lowest index when several share the maximum.
C16_CompletionIsFirstArgmax ==
    \A t \in Threads :
        fpass[t].success =>
            \E i \in DOMAIN fpass[t].successful_completions :
                /\ FirstMaximal(fpass[t].rewards, i)
                /\ fpass[t].completion = <<fpass[t].successful_completions[i]>>

\* a successful round whose two completions share the maximal reward
C16_Witness ==
    \E t \in Threads :
        /\ fpass[t].success
        /\ Len(fpass[t].successful_completions) = 2
        /\ fpass[t].rewards[1] = fpass[t].rewards[2]
        /\ fpass[t].successful_completions[1] # fpass[t].successful_completions[2]

\* rewards has one entry per successful completion and per successful uid
RewardsAligned(e) ==
    /\ Len(e.rewards) = Len(e.successful_completions)
    /\ Len(e.rewards) = Len(e.successful_uids)
    /\ \A i \in DOMAIN e.rewards : e.successful_completions[i] = TextOf(e.successful_uids[i])

\* C17: in every successful round and every recorded event the reward vector has one
\* entry per successful completion, entry i belonging to successful completion i and
\* successful uid i; without a reward model entry i is the gating score of successful uid i.
C17_RewardsIndexAligned ==
    /\ \A t \in Threads :
        fpass[t].success =>
            /\ RewardsAligned(fpass[t])
            /\ config.no_reward_model =>
                \A i \in DOMAIN fpass[t].rewards :
                    fpass[t].rewards[i] = At(fpass[t].scores, fpass[t].successful_uids[i])
    /\ \A j \in DOMAIN history : RewardsAligned(history[j])

\* a recorded round without a reward model in which only the uid of the lower gating
\* score, the second one queried, was successful
C17_Witness ==
    \E t \in Threads :
        /\ Returned(t) /\ fpass[t].success /\ fpass[t].record_event
        /\ config.no_reward_model
        /\ Len(fpass[t].uids_to_query) = 2
        /\ fpass[t].successful_uids = <<fpass[t].uids_to_query[2]>>
        /\ At(fpass[t].scores, fpass[t].uids_to_query[2])
             < At(fpass[t].scores, fpass[t].uids_to_query[1])
        /\ history[Len(history)].rewards = fpass[t].rewards

\* the step ends the handling of an epoch boundary: set_weights has returned
BoundaryHandled == pc["train"] = "submitting" /\ pc'["train"] = "top"

\* C18, as stated: the weights are computed and submitted and then the epoch counter is
\* reset, so when the handling of a boundary finishes no block has elapsed since
\* last_epoch_block.
C18_ResetAfterSubmit == [][BoundaryHandled => elapsed' = 0]_vars

\* the training loop takes a step inside the handling of an epoch boundary
HandlingStep == pc["train"] \in {"computing", "submitting"} /\ pc' # pc

\* C18: the epoch counter is reset when the boundary is entered, before the weights are
\* computed and submitted, and it is not touched again while the boundary is handled,
\* whatever the submission returns.
C18_ResetBeforeCompute ==
    [][/\ TakesEpochBoundary => elapsed' = 0
       /\ HandlingStep => (last_epoch_block' = last_epoch_block /\ elapsed' = elapsed)]_vars

\* the submission is pending and blocks were produced since the counter was reset
C18_Witness == pc["train"] = "submitting" /\ elapsed > 0

\* the step calls set_weights
SubmitCalled == pc["train"] # "submitting" /\ pc'["train"] = "submitting"

\* the step is the return of set_weights
SubmitReturned == submitted.result = "pending" /\ submitted'.result # "pending"

\* C19, as stated: a submission is not retried, and between two consecutive calls of
\* set_weights at least epoch_length blocks have elapsed.
C19_EpochLengthBetweenSubmits ==
    [][(SubmitCalled /\ submitted.result # "none") => submitted.since >= EpochLength]_vars

\* C19: when set_weights returns, True or False, the loop goes back to querying without
\* an exception; set_weights is called only in the handling of an epoch boundary, and a
\* boundary is taken only when at least epoch_length blocks have elapsed since
\* last_epoch_block was set at the previous boundary.
C19_NextSubmitAtNextBoundary ==
    [][/\ SubmitReturned =>
            /\ pc'["train"] = "top"
            /\ epoch'.error = "none"
            /\ submitted'.result \in {"True", "False"}
       /\ SubmitCalled => pc["train"] \in {"resync", "computing"}
       /\ TakesEpochBoundary => elapsed >= EpochLength]_vars

\* set_weights returned False and the loop is querying again, in the epoch of that call
C19_Witness ==
    /\ submitted.result = "False"
    /\ submitted.since < EpochLength
    /\ pc["train"] = "question_wait"

\* thread t's round has dispatched its requests and they have not settled
InFlight(t) == pc[t] \in {"wait", "question_wait", "answer_wait"}

\* C20: at most one forward round is in flight at any time, over the training loop and
\* the inference requests.
C20_OneRoundInFlight ==
    \A t1, t2 \in Threads : (InFlight(t1) /\ InFlight(t2)) => t1 = t2

\* C21: recording and computing exclude each other: while compute_weights runs, with
\* inference requests served concurrently, no event is appended to the history, so the
\* computation sees one consistent snapshot and does not fail.
C21_RecordExcludesCompute ==
    /\ [][pc["train"] = "computing" => history' = history]_vars
    /\ [](epoch.error # "RuntimeError")

\* async_call has run to its end on the call object
CallEnded == call.outcome # <<>> /\ call.stage = "idle"

\* C22: whatever the outcome of the request (a response, an RpcError, a timeout, any
\* other exception), async_call returns normally, with completed = True and a return
\* code set.
C22_DispatchNeverRaises ==
    CallEnded =>
        /\ call.raised = "none"
        /\ call.completed
        /\ call.return_code # PyNone

\* the dict {"role": role, "content": message}
MessageDict(role, message) == (RoleKey :> role) @@ (ContentKey :> message)

PreChecksPassed ==
    /\ assoc.args.hotkey_matches
    /\ assoc.world.address_valid
    /\ ~assoc.world.is_associated
    /\ assoc.world.account_balance
           >= Fee(assoc.world.payment_info) + assoc.world.existential_deposit
    /\ assoc.args.prompt => assoc.world.confirm
Waited == assoc.args.wait_for_inclusion \/ assoc.args.wait_for_finalization
AssociateEnded == assoc.stage \in {"returned", "raised"}

\* C25: associate_extrinsic submits an extrinsic only if every pre-check passed (the
\* hotkey equals the address, the address is valid, it is not already associated, the
\* balance covers fee + existential deposit, the prompt was confirmed when prompting).
\* The checks are taken in that order: a hotkey mismatch raises ValueError, an already
\* associated (matching, valid) address returns True without a submission, and a
\* waited submission returns True only if the chain then reports the association.
C25_SubmitsOnlyAfterChecks ==
    assoc.stage \notin {"none", "called"} =>
        /\ assoc.submitted => PreChecksPassed
        /\ ~assoc.args.hotkey_matches =>
              assoc.stage = "raised" /\ assoc.result = "ValueError" /\ ~assoc.submitted
        /\ assoc.stage = "raised" => ~assoc.args.hotkey_matches
        /\ (assoc.args.hotkey_matches /\ assoc.world.address_valid
                /\ assoc.world.is_associated) =>
              assoc.stage = "returned" /\ assoc.result = "True" /\ ~assoc.submitted
        /\ (AssociateEnded /\ assoc.submitted /\ Waited /\ assoc.result = "True") =>
              assoc.is_success /\ assoc.is_associated_after

\* a prompted, waited submission paid at the fallback fee has returned True
C25_Witness ==
    /\ assoc.stage = "returned"
    /\ assoc.submitted
    /\ Waited
    /\ assoc.args.prompt
    /\ assoc.world.payment_info.raised
    /\ assoc.world.existential_deposit > 0
    /\ assoc.result = "True"

\* C24: when num_to_query is -1 or None, forward queries all uids: the queried uids are
\* exactly the available (serving) uids, each once.
C24_QueriesAllAvailable ==
    \A t \in Threads :
        (fpass[t] # NoFpass /\ fpass[t].num_to_query_arg \in {-1, NumToQueryNone}) =>
            /\ fpass[t].available_uids = AvailableUids(metagraph)
            /\ UidSet(fpass[t].uids_to_query) = {u \in Uids : At(metagraph.serving, u)}
            /\ Len(fpass[t].uids_to_query) = Len(fpass[t].available_uids)

\* a round called with num_to_query = None has selected every uid of the metagraph
C24_Witness ==
    /\ pc["caller"] = "wait"
    /\ fpass["caller"].num_to_query_arg = NumToQueryNone
    /\ ~fpass["caller"].random_sample_uids
    /\ Len(fpass["caller"].uids_to_query) = MetagraphN

\* C26: a completed forward call has exactly one of two forms: return code Success with
\* the completion string carried by the response, readable through the completion
\* property, or a non-success return code with the empty completion.
C26_CompletedCallForms ==
    (call.stage # "none" /\ call.completed) =>
        IF call.return_code = "Success"
        THEN call.completion # PyNone /\ call.completion = call.response_proto
        ELSE call.completion = ""

\* C27: an RpcError is recorded with the rpc's code, a timeout as Timeout, any other
\* exception as UnknownException; the completion is "" in all three, so the filter of
\* forward() leaves the uid out, and async_call returns without raising.
C27_FailuresFolded ==
    (CallEnded /\ call.outcome[1] # "response") =>
        /\ call.return_code =
              CASE call.outcome[1] = "RpcError" -> call.outcome[2]
                [] call.outcome[1] = "TimeoutError" -> "Timeout"
                [] call.outcome[1] = "Exception" -> "UnknownException"
        /\ call.completion = ""
        /\ ~PassesFilter(call)
        /\ call.completed
        /\ call.raised = "none"

\* a request that was sent has failed with an RpcError of code UNAVAILABLE
C27_Witness ==
    /\ CallEnded
    /\ call.sent = 1
    /\ call.outcome = <<"RpcError", "UNAVAILABLE">>
    /\ call.return_code = "UNAVAILABLE"

\* C28: once a call is completed, invoking call() / async_call() again and reading
\* return_code, return_message, response_proto or completion sends no other request and
\* changes neither the recorded return code nor the completion.
C28_NoRetryAfterCompletion ==
    [][(call.stage # "none" /\ call.completed) =>
            /\ call'.completed
            /\ call'.stage = "idle"
            /\ call'.sent = call.sent
            /\ call'.return_code = call.return_code
            /\ call'.completion = call.completion]_vars

\* a completed call that sent its request was invoked again, and a property was read
C28_Witness ==
    /\ call.stage = "idle"
    /\ call.completed
    /\ call.sent = 1
    /\ call.reinvoked
    /\ call.read # <<>>

\* thread t's call of forward() returns in this step
ForwardReturns(t) ==
    /\ pc'[t] # pc[t]
    /\ pc'[t] \in {"returned", "question_returned", "resync"}
    /\ fpass'[t] # NoFpass

\* C29: a round that ends unsuccessful is marked success = False, has skipped the reward
\* scoring, the gating update and the reward backward, and leaves the history
\* unchanged; a successful round with record_event = False leaves the history unchanged.
C29_UnsuccessfulRoundHasNoEffect ==
    [][\A t \in Threads :
          ForwardReturns(t) =>
              /\ ~fpass'[t].success =>
                    /\ fpass'[t].effects = {}
                    /\ "rewards" \notin fpass'[t].assigned
                    /\ fpass'[t].rewards = <<>>
                    /\ history' = history
              /\ (fpass'[t].success /\ ~fpass'[t].record_event) => history' = history]_vars

\* a round asked to train and to send rewards back, with a reward model, queried peers,
\* got no completion, and returned
C29_Witness ==
    /\ pc["caller"] = "returned"
    /\ ~fpass["caller"].success
    /\ fpass["caller"].uids_to_query # <<>>
    /\ fpass["caller"].train_gating_model
    /\ fpass["caller"].apply_backward
    /\ ~config.no_reward_model
    /\ history # <<>>

\* C30: the gating model is updated in a round iff the round has a successful
\* completion, the reward model is active and train_gating_model is true; the rewards
\* are sent backward iff the round has a successful completion, the reward model is
\* active and apply_backward is true.
C30_UpdatesIffEnabled ==
    \A t \in Threads :
        /\ "gating_model.backward" \in fpass[t].effects <=>
              /\ Len(fpass[t].successful_completions) >= 1
              /\ ~config.no_reward_model
              /\ fpass[t].train_gating_model
        /\ "dendrite_pool.backward" \in fpass[t].effects <=>
              /\ Len(fpass[t].successful_completions) >= 1
              /\ ~config.no_reward_model
              /\ fpass[t].apply_backward

\* a successful round with a reward model trained the gating model and sent nothing back
C30_Witness ==
    /\ pc["caller"] = "returned"
    /\ fpass["caller"].success
    /\ ~config.no_reward_model
    /\ fpass["caller"].train_gating_model
    /\ ~fpass["caller"].apply_backward
    /\ fpass["caller"].effects = {"reward_model.reward", "gating_model.backward"}

\* C31: with no_reward_model set the reward model is never called, and the reward
\* vector of a round is exactly the gating scores, computed before the selection, at the
\* successful uids, index-aligned with the successful completions.
C31_DegradedRewardsAreScores ==
    \A t \in Threads :
        (config.no_reward_model /\ fpass[t] # NoFpass) =>
            /\ "reward_model.reward" \notin fpass[t].effects
            /\ fpass[t].success =>
                  /\ fpass[t].rewards =
                        [i \in DOMAIN fpass[t].successful_uids |->
                            At(fpass[t].scores, fpass[t].successful_uids[i])]
                  /\ DOMAIN fpass[t].rewards = DOMAIN fpass[t].successful_completions

\* a degraded round asked to train the gating model returned two successful uids of
\* different gating scores
C31_Witness ==
    /\ pc["caller"] = "returned"
    /\ config.no_reward_model
    /\ fpass["caller"].success
    /\ fpass["caller"].train_gating_model
    /\ Len(fpass["caller"].successful_uids) = 2
    /\ fpass["caller"].rewards[1] # fpass["caller"].rewards[2]

\* C32: ranked mode selects the top k available uids by gating score: every selected
\* uid has a score >= that of every unselected available uid, and between an available
\* uid selected and one left out with the same score, the smaller uid is the one selected.
C32_RankedTopKTiesAscending ==
    \A t \in Threads :
        (Selected(t) /\ ~fpass[t].random_sample_uids) =>
            \A s \in UidSet(fpass[t].uids_to_query) :
                \A u \in UidSet(fpass[t].available_uids) \ UidSet(fpass[t].uids_to_query) :
                    /\ At(fpass[t].scores, s) >= At(fpass[t].scores, u)
                    /\ At(fpass[t].scores, s) = At(fpass[t].scores, u) => s < u

\* C33: a failure of the write of the event log does not affect the outcome of the
\* round: the round has returned to its caller with success = True and the chosen
\* completion, no exception reached the caller, and the event stays in the history.
C33_SinkFailureLeavesOutcome ==
    \A t \in Threads :
        fpass[t].event_log = "failed" =>
            /\ pc[t] = "returned"
            /\ fpass[t].raised = "none"
            /\ fpass[t].success
            /\ fpass[t].completion
                  = <<fpass[t].successful_completions[ArgMax(fpass[t].rewards)]>>
            /\ fpass[t].record_event =>
                  /\ history # <<>>
                  /\ history[Len(history)] = EventOf(fpass[t])

\* the write of the event of a recorded round has failed
C33_Witness ==
    /\ fpass["caller"].event_log = "failed"
    /\ fpass["caller"].record_event
    /\ Len(fpass["caller"].successful_uids) = 2

\* C34: when the reward model or the gating model raises during a round, the exception
\* is not masked: forward() does not return, the exception reaches its caller, the round
\* is not marked successful and no event of the round is appended to the history.
C34_ModelExceptionPropagates ==
    [][\A t \in Threads :
          (fpass[t].raised = "none" /\ fpass'[t].raised # "none") =>
              /\ pc'[t] = "raised"
              /\ ~fpass'[t].success
              /\ fpass'[t].event_log = "none"
              /\ history' = history]_vars

\* the gating model's update raised in a round that was to be recorded, after the
\* reward model had scored its completions
C34_Witness ==
    /\ pc["caller"] = "raised"
    /\ fpass["caller"].raised = "gating_model.backward"
    /\ fpass["caller"].record_event
    /\ fpass["caller"].rewards # <<>>
    /\ history = <<>>

\* C35: a recorded event is never mutated: once in the history, the event keeps its
\* hotkey snapshot, its successful uids and its rewards through every later step, the
\* rotations and resyncs of the peer directory and the calls of compute_weights included.
C35_RecordedEventsUnchanged ==
    [][\A j \in DOMAIN history :
          /\ j \in DOMAIN history'
          /\ history'[j].hotkeys = history[j].hotkeys
          /\ history'[j].successful_uids = history[j].successful_uids
          /\ history'[j].rewards = history[j].rewards]_vars

\* compute_weights has run over an event recorded before a hotkey rotation
C35_Witness ==
    /\ pc["train"] = "submitting"
    /\ cw.raw_weights # <<>>
    /\ Len(history) >= 1
    /\ history[1].hotkeys # metagraph.hotkeys

\* the training loop takes the step of train.py:66-85, the resync and the epoch check
ReachesEpochCheck == pc["train"] = "resync" /\ pc'["train"] # "resync"

\* C36, as stated: the test last_epoch_block % 10 == 0 gates the epoch boundary: the
\* weights are computed and submitted in an iteration according to whether
\* last_epoch_block is a multiple of 10, not to the blocks elapsed since the boundary.
C36_AlignmentGatesBoundary ==
    [][ReachesEpochCheck =>
            (TakesEpochBoundary <=> last_epoch_block % SyncModulus = 0)]_vars

\* C36: the test last_epoch_block % 10 == 0 gates the resync of the peer directory only:
\* the directory changes at the check only when last_epoch_block is a multiple of 10.
\* The epoch boundary is gated by the blocks elapsed: an iteration that reaches the
\* check takes the boundary iff at least epoch_length blocks have elapsed since
\* last_epoch_block, whatever its alignment.
C36_AlignmentGatesResyncOnly ==
    [][ReachesEpochCheck =>
            /\ metagraph' # metagraph => last_epoch_block % SyncModulus = 0
            /\ TakesEpochBoundary <=> elapsed >= EpochLength]_vars

\* a boundary was handled before, and the loop reaches the check with the epoch due and
\* last_epoch_block not a multiple of 10
C36_Witness ==
    /\ pc["train"] = "resync"
    /\ submitted.result \in {"True", "False"}
    /\ last_epoch_block % SyncModulus # 0
    /\ elapsed >= EpochLength

\* the reward normalization of weights.py:48 is defined on event e: its rewards are not
\* empty and their softmax is a distribution
NormalizationDefined(e) ==
    /\ Len(e.rewards) >= 1
    /\ SeqSum(e.rewards) > 0
    /\ \A i \in DOMAIN e.rewards : e.rewards[i] > 0

\* C37: every event stored in the history is a successful round: success = True, at
\* least one successful uid, a chosen completion, and a reward vector of the same
\* non-zero length, so the reward normalization of compute_weights is defined on it.
C37_HistoryHoldsSuccessfulRounds ==
    \A j \in DOMAIN history :
        /\ history[j].success
        /\ Len(history[j].successful_uids) >= 1
        /\ Len(history[j].completion) = 1
        /\ history[j].completion[1] \in Range(history[j].successful_completions)
        /\ Len(history[j].rewards) = Len(history[j].successful_uids)
        /\ NormalizationDefined(history[j])

\* a round with two successful uids of different rewards was recorded
C37_Witness ==
    /\ pc["caller"] = "returned"
    /\ fpass["caller"].record_event
    /\ Len(history) = 1
    /\ Len(history[1].successful_uids) = 2
    /\ history[1].rewards[1] # history[1].rewards[2]

\* the fraction x lies in the interval [0, 1]
InUnitInterval(x) == 0 <= x[1] /\ x[1] <= x[2]

\* C38: while and after compute_weights processes a history, of any events with any
\* successful uids, any rewards and any hotkey rotations, the score of every uid lies in
\* the interval [0, 1].
C38_ScoresInUnitInterval ==
    \A u \in DOMAIN cw.scores : cw.scores[u][2] > 0 /\ InUnitInterval(cw.scores[u])

\* two events were processed, a hotkey rotated between them, and a uid has a score
\* strictly between 0 and 1
C38_Witness ==
    /\ pc["train"] = "submitting"
    /\ cw.size = 2
    /\ history[1].hotkeys # history[2].hotkeys
    /\ \E u \in DOMAIN cw.scores : 0 < cw.scores[u][1] /\ cw.scores[u][1] < cw.scores[u][2]
    /\ \E u \in DOMAIN cw.scores : cw.scores[u] = RZero

\* C39: compute_weights only reads the history: through every step of a call, and after
\* it returns, the history holds the same events in the same order, and the next call
\* starts over from the first of them.
C39_ComputeLeavesHistory ==
    [][/\ pc["train"] = "computing" =>
            (Len(history') = Len(history) /\ \A j \in DOMAIN history : history'[j] = history[j])
       /\ (pc["train"] = "submitting" /\ pc'["train"] = "computing") =>
            /\ history' = history
            /\ cw'.i = 1
            /\ cw'.size = Len(history)]_vars

\* compute_weights returned, was called again, and is processing the second of the two
\* events it processed in the first call
C39_Witness ==
    /\ pc["train"] = "computing"
    /\ submitted = SubmitCall
    /\ Len(history) = 2
    /\ cw.i = 2
    /\ history[1] # history[2]

====
